---------------------------- MODULE Spec2Model ----------------------------
(***************************************************************************)
(* A model of the artifact chat client (src/src/App.tsx).                  *)
(*                                                                         *)
(* Text is a sequence of one-character strings, so that the two regular    *)
(* expressions of the program are computed character by character.         *)
(* An optional JavaScript value (undefined or a value v) is the sequence   *)
(* <<>> or <<v>>.                                                           *)
(***************************************************************************)
EXTENDS Integers, Sequences, FiniteSets, TLC

(***************************************************************************)
(* Bounds of the model.                                                    *)
(***************************************************************************)
MaxSubmits == 2   \* accepted submissions in one behaviour
MaxChunks == 2    \* fragments the transport yields in one behaviour
MaxSegments == 3  \* segments of a text handed to the extractor
MaxArtifacts == 2 \* artifacts of a turn handed to the serializer

(***************************************************************************)
(* Characters and literals.                                                *)
(***************************************************************************)
Quote == "\""
\* the characters \s matches and String.prototype.trim removes
Whitespace == {" ", "\n", "\t"}

OpenLit == <<"<","a","n","t","A","r","t","i","f","a","c","t">>
IdentifierLit == <<"i","d","e","n","t","i","f","i","e","r","=","\"">>
TypeLit == <<"t","y","p","e","=","\"">>
LanguageLit == <<"l","a","n","g","u","a","g","e","=","\"">>
TitleLit == <<"t","i","t","l","e","=","\"">>
OpenEndLit == <<"\"",">">>
CloseLit == <<"<","/","a","n","t","A","r","t","i","f","a","c","t",">">>
ErrorPrefix == <<"A","n"," ","e","r","r","o","r"," ","o","c","c","u","r","r","e","d"," ","w","h","i","l","e"," ","p","r","o","c","e","s","s","i","n","g"," ","y","o","u","r"," ","r","e","q","u","e","s","t",".">>
TitleLabel == <<"T","i","t","l","e",":"," ">>
ContentLabel == <<"\n","C","o","n","t","e","n","t",":"," ">>
TypeLabel == <<"\n","T","y","p","e",":"," ">>
LanguageLabel == <<"\n","L","a","n","g","u","a","g","e",":"," ">>
NotApplicable == <<"N","/","A">>
\* the system instruction text, kept as one opaque character
instructions == <<"<artifacts_info>">>

(***************************************************************************)
(* String helpers: startsWith at a position, indexOf from a position,      *)
(* the end of a maximal run of characters, trim, join.                     *)
(***************************************************************************)
Min(S) == CHOOSE x \in S : \A y \in S : x <= y

StartsWithAt(text, i, lit) ==
  /\ i >= 1
  /\ i + Len(lit) - 1 <= Len(text)
  /\ \A k \in 1..Len(lit) : text[i + k - 1] = lit[k]

\* the first position >= i at which lit occurs in text, 0 when there is none
IndexOfFrom(text, i, lit) ==
  IF \E j \in i..(Len(text) - Len(lit) + 1) : StartsWithAt(text, j, lit)
  THEN CHOOSE j \in i..(Len(text) - Len(lit) + 1) :
         /\ StartsWithAt(text, j, lit)
         /\ \A k \in i..(j - 1) : ~StartsWithAt(text, k, lit)
  ELSE 0

\* the first position >= i whose character is not in S (Len(text)+1 at the end)
RunEnd(text, i, S) ==
  IF i > Len(text) THEN i
  ELSE CHOOSE j \in i..(Len(text) + 1) :
         /\ j = Len(text) + 1 \/ text[j] \notin S
         /\ \A k \in i..(j - 1) : text[k] \in S

\* the first position >= i whose character is c (Len(text)+1 at the end)
RunEndNot(text, i, c) ==
  IF i > Len(text) THEN i
  ELSE CHOOSE j \in i..(Len(text) + 1) :
         /\ j = Len(text) + 1 \/ text[j] = c
         /\ \A k \in i..(j - 1) : text[k] # c

TrimStart(s) == SubSeq(s, RunEnd(s, 1, Whitespace), Len(s))

TrimEnd(s) ==
  IF \A j \in 1..Len(s) : s[j] \in Whitespace THEN <<>>
  ELSE SubSeq(s, 1, CHOOSE j \in 1..Len(s) :
                      /\ s[j] \notin Whitespace
                      /\ \A k \in (j + 1)..Len(s) : s[k] \in Whitespace)

Trim(s) == TrimEnd(TrimStart(s))

RECURSIVE Join(_, _)
\* Array.prototype.join: the texts of ss separated by sep
Join(ss, sep) ==
  IF ss = <<>> THEN <<>>
  ELSE IF Len(ss) = 1 THEN ss[1]
  ELSE ss[1] \o sep \o Join(Tail(ss), sep)

(***************************************************************************)
(* parseArtifacts: one attempt of artifactRegex at position i.  Every      *)
(* quantifier of the pattern is followed by a literal that its run cannot  *)
(* contain (\s+ by a letter, [^"]+ by the quote, the optional language     *)
(* group by "title"), so the greedy attempt is the only one that can       *)
(* succeed; the lazy body ends at the first closing tag.  The result is    *)
(* <<>> for no match and <<[end, artifact]>> for a match that ends before  *)
(* position end.                                                            *)
(***************************************************************************)
AttrValue(text, i, lit) ==
  \* lit, then ([^"]+), then the quote: <<>> or <<[value, next]>>
  IF ~StartsWithAt(text, i, lit) THEN <<>>
  ELSE LET v == i + Len(lit)
           q == RunEndNot(text, v, Quote)
       IN IF q = v \/ q > Len(text) THEN <<>>
          ELSE <<[value |-> SubSeq(text, v, q - 1), next |-> q + 1]>>

SpaceThen(text, i) ==
  \* \s+ : 0 when no whitespace at i, else the position after the run
  LET j == RunEnd(text, i, Whitespace) IN IF j = i THEN 0 ELSE j

\* the first alternative when it matches, the second otherwise
OrElse(first, second) == IF first # <<>> THEN first ELSE second

\* ([\s\S]*?)<\/antArtifact> : the body from b up to the closing tag at c
MatchClose(text, idv, tyv, lang, title, b, c) ==
  IF c = 0 THEN <<>>
  ELSE <<[end |-> c + Len(CloseLit),
          artifact |-> [identifier |-> idv,
                        type |-> tyv,
                        language |-> lang,
                        title |-> title,
                        content |-> Trim(SubSeq(text, b, c - 1))]]>>

\* "> after the title value ti, then the body
MatchTitle(text, idv, tyv, lang, ti) ==
  IF ti = <<>> THEN <<>>
  ELSE IF ~StartsWithAt(text, ti[1].next - 1, OpenEndLit) THEN <<>>
  ELSE MatchClose(text, idv, tyv, lang, ti[1].value, ti[1].next + 1,
                  IndexOfFrom(text, ti[1].next + 1, CloseLit))

\* title="([^"]+)">([\s\S]*?)<\/antArtifact> from position i
MatchTail(text, idv, tyv, lang, i) ==
  MatchTitle(text, idv, tyv, lang, AttrValue(text, i, TitleLit))

\* the optional group took language value lav; s4 is the end of its \s+
MatchWithLanguage(text, idv, tyv, lav, s4) ==
  IF s4 = 0 THEN <<>> ELSE MatchTail(text, idv, tyv, <<lav>>, s4)

\* (?:language="([^"]+)"\s+)? at s3, la being the attribute read there:
\* the group is tried first, and skipped when the rest fails with it
MatchLanguage(text, idv, tyv, s3, la) ==
  OrElse(IF la = <<>> THEN <<>>
         ELSE MatchWithLanguage(text, idv, tyv, la[1].value,
                                SpaceThen(text, la[1].next)),
         MatchTail(text, idv, tyv, <<>>, s3))

\* s3 is the end of the \s+ after the type attribute
MatchAfterType(text, idv, tyv, s3) ==
  IF s3 = 0 THEN <<>>
  ELSE MatchLanguage(text, idv, tyv, s3, AttrValue(text, s3, LanguageLit))

\* ty is the type attribute read after the identifier
MatchType(text, idv, ty) ==
  IF ty = <<>> THEN <<>>
  ELSE MatchAfterType(text, idv, ty[1].value, SpaceThen(text, ty[1].next))

\* s2 is the end of the \s+ after the identifier attribute
MatchAfterIdentifier(text, idv, s2) ==
  IF s2 = 0 THEN <<>> ELSE MatchType(text, idv, AttrValue(text, s2, TypeLit))

\* id is the identifier attribute read after the tag name
MatchIdentifier(text, id) ==
  IF id = <<>> THEN <<>>
  ELSE MatchAfterIdentifier(text, id[1].value, SpaceThen(text, id[1].next))

\* s1 is the end of the \s+ after the tag name
MatchAfterOpen(text, s1) ==
  IF s1 = 0 THEN <<>>
  ELSE MatchIdentifier(text, AttrValue(text, s1, IdentifierLit))

MatchAt(text, i) ==
  IF ~StartsWithAt(text, i, OpenLit) THEN <<>>
  ELSE MatchAfterOpen(text, SpaceThen(text, i + Len(OpenLit)))

\* the match at the leftmost of the positions where one exists
MatchLeftmost(text, starts) ==
  IF starts = {} THEN <<>> ELSE MatchAt(text, Min(starts))

\* artifactRegex.exec from lastIndex: the leftmost match at or after it
Exec(text, lastIndex) ==
  MatchLeftmost(text, {j \in lastIndex..Len(text) : MatchAt(text, j) # <<>>})

RECURSIVE ParseFrom(_, _)
\* one iteration of the while loop: push the match m, go on from its end
ParseStep(text, m) ==
  IF m = <<>> THEN <<>>
  ELSE <<m[1].artifact>> \o ParseFrom(text, m[1].end)

\* the while loop of parseArtifacts
ParseFrom(text, lastIndex) == ParseStep(text, Exec(text, lastIndex))

parseArtifacts(text) == ParseFrom(text, 1)

(***************************************************************************)
(* renderMessageContent: the text a turn is displayed with.                *)
(***************************************************************************)
ThinkOpenLit == <<"<","a","n","t","T","h","i","n","k","i","n","g",">">>
ThinkCloseLit == <<"<","/","a","n","t","T","h","i","n","k","i","n","g",">">>

RECURSIVE ReplaceThinkingFrom(_, _)
\* the match opened at i and closed at c becomes *body*; go on from its end
ReplaceThinkingMatch(text, lastIndex, i, c) ==
  IF c = 0 THEN SubSeq(text, lastIndex, Len(text))
  ELSE SubSeq(text, lastIndex, i - 1) \o <<"*">>
         \o SubSeq(text, i + Len(ThinkOpenLit), c - 1) \o <<"*">>
         \o ReplaceThinkingFrom(text, c + Len(ThinkCloseLit))

\* ([\s\S]*?)<\/antThinking> : the first closing tag after the opening at i
ReplaceThinkingAt(text, lastIndex, i) ==
  IF i = 0 THEN SubSeq(text, lastIndex, Len(text))
  ELSE ReplaceThinkingMatch(text, lastIndex, i,
         IndexOfFrom(text, i + Len(ThinkOpenLit), ThinkCloseLit))

\* content.replace(/<antThinking>([\s\S]*?)<\/antThinking>/g, "*$1*")
ReplaceThinkingFrom(text, lastIndex) ==
  ReplaceThinkingAt(text, lastIndex, IndexOfFrom(text, lastIndex, ThinkOpenLit))

RECURSIVE StripArtifactsFrom(_, _)
\* the match opened at i and closed at c is dropped; go on from its end
StripArtifactsMatch(text, lastIndex, i, c) ==
  IF c = 0 THEN SubSeq(text, lastIndex, Len(text))
  ELSE SubSeq(text, lastIndex, i - 1)
         \o StripArtifactsFrom(text, c + Len(CloseLit))

\* [\s\S]*?<\/antArtifact> : the first closing tag after the tag name at i
StripArtifactsAt(text, lastIndex, i) ==
  IF i = 0 THEN SubSeq(text, lastIndex, Len(text))
  ELSE StripArtifactsMatch(text, lastIndex, i,
         IndexOfFrom(text, i + Len(OpenLit), CloseLit))

\* content.replace(/<antArtifact[\s\S]*?<\/antArtifact>/g, '')
StripArtifactsFrom(text, lastIndex) ==
  StripArtifactsAt(text, lastIndex, IndexOfFrom(text, lastIndex, OpenLit))

renderMessageContent(message) ==
  StripArtifactsFrom(ReplaceThinkingFrom(message.parts[1].text, 1), 1)

(***************************************************************************)
(* convertMessageToGeminiMessage / convertMessagesToGeminiMessages.        *)
(* A Message is [role, parts, artifacts]: parts a sequence of [text],      *)
(* artifacts <<>> when the property is undefined and <<seq>> otherwise.    *)
(***************************************************************************)
\* mutant: the language is written as it is, without the "N/A" default
ArtifactRecord_NoDefault(artifact) ==
  TitleLabel \o artifact.title
    \o ContentLabel \o artifact.content
    \o TypeLabel \o artifact.type
    \o LanguageLabel
    \o (IF artifact.language = <<>> THEN <<>> ELSE artifact.language[1])

ArtifactRecord(artifact) ==
  TitleLabel \o artifact.title
    \o ContentLabel \o artifact.content
    \o TypeLabel \o artifact.type
    \o LanguageLabel
    \o (IF artifact.language = <<>> \/ artifact.language[1] = <<>>
        THEN NotApplicable ELSE artifact.language[1])

\* mutant: the separator is written whether or not there are artifacts
convertMessageToGeminiMessage_AlwaysSeparator(message) ==
  LET partsText ==
        Join([k \in 1..Len(message.parts) |-> message.parts[k].text], <<"\n">>)
      artifactsText ==
        IF message.artifacts # <<>> /\ Len(message.artifacts[1]) > 0
        THEN Join([k \in 1..Len(message.artifacts[1]) |->
                     ArtifactRecord(message.artifacts[1][k])], <<"\n", "\n">>)
        ELSE <<>>
  IN [role |-> message.role,
      parts |-> <<[text |-> partsText \o <<"\n", "\n">> \o artifactsText]>>]

convertMessageToGeminiMessage(message) ==
  LET partsText ==
        Join([k \in 1..Len(message.parts) |-> message.parts[k].text], <<"\n">>)
      artifactsText ==
        IF message.artifacts # <<>> /\ Len(message.artifacts[1]) > 0
        THEN Join([k \in 1..Len(message.artifacts[1]) |->
                     ArtifactRecord(message.artifacts[1][k])], <<"\n", "\n">>)
        ELSE <<>>
  IN [role |-> message.role,
      parts |-> <<[text |-> partsText \o
                     (IF artifactsText # <<>>
                      THEN <<"\n", "\n">> \o artifactsText ELSE <<>>)]>>]

convertMessagesToGeminiMessages(msgs) ==
  [k \in 1..Len(msgs) |-> convertMessageToGeminiMessage(msgs[k])]

(***************************************************************************)
(* JSON.stringify and JSON.parse of the Log.  A JSON object is a record    *)
(* holding exactly the keys that are written: stringify omits a property   *)
(* whose value is undefined, parse reads a missing property as undefined.  *)
(***************************************************************************)
StringifyArtifact(a) ==
  IF a.language = <<>>
  THEN [identifier |-> a.identifier, type |-> a.type,
        title |-> a.title, content |-> a.content]
  ELSE [identifier |-> a.identifier, type |-> a.type,
        language |-> a.language[1],
        title |-> a.title, content |-> a.content]

StringifyMessage(m) ==
  IF m.artifacts = <<>>
  THEN [role |-> m.role, parts |-> m.parts]
  ELSE [role |-> m.role, parts |-> m.parts,
        artifacts |-> [k \in 1..Len(m.artifacts[1]) |->
                         StringifyArtifact(m.artifacts[1][k])]]

JSONStringify(msgs) == [k \in 1..Len(msgs) |-> StringifyMessage(msgs[k])]

ParseArtifactJSON(j) ==
  [identifier |-> j.identifier, type |-> j.type,
   language |-> IF "language" \in DOMAIN j THEN <<j.language>> ELSE <<>>,
   title |-> j.title, content |-> j.content]

\* mutant: the artifacts of a stored turn are not read back
ParseMessageJSON_NoArtifacts(j) ==
  [role |-> j.role, parts |-> j.parts, artifacts |-> <<>>]

ParseMessageJSON(j) ==
  [role |-> j.role, parts |-> j.parts,
   artifacts |-> IF "artifacts" \in DOMAIN j
                 THEN <<[k \in 1..Len(j.artifacts) |->
                           ParseArtifactJSON(j.artifacts[k])]>>
                 ELSE <<>>]

JSONParse(json) == [k \in 1..Len(json) |-> ParseMessageJSON(json[k])]

(***************************************************************************)
(* State of PromptInterface.  The model choice (gemini-1.5-pro / flash)    *)
(* takes no part in any transition below and is left out.                  *)
(***************************************************************************)
VARIABLES
  input,             \* useState: the input buffer
  messages,          \* useState: the Log
  apiKey,            \* useState: the credential
  isThinking,        \* useState: the controller's flag
  streamingMessage,  \* useState: the live accumulator
  chatRef,           \* useRef: <<>> for null, <<handle>> for a chat session
  localStorage,      \* [apiKey, chatHistory], each <<>> (no item) or <<value>>
  exchanges,         \* invocations of handleSubmit suspended at an await
  transport,         \* the collaborator: startChat and sendMessageStream calls
  parsed,            \* <<>>, or <<text>> when the last step called parseArtifacts(text)
  submitted,         \* number of accepted submissions
  lastOp,            \* the handler or continuation that ran last ("other" for
                     \* those that touch neither the Log nor the controller)
  doc,               \* extractor check: the segments of the text
  extracted,         \* extractor check: <<>> or <<result of parseArtifacts>>
  displayed,         \* extractor check: <<>> or <<result of renderMessageContent>>
  turn,              \* serializer check: <<>> or <<the Message to convert>>
  serialized         \* serializer check: <<>> or <<the GeminiMessage>>

controllerVars ==
  <<input, messages, apiKey, isThinking, streamingMessage, chatRef,
    localStorage, exchanges, transport, parsed, submitted, lastOp>>
\* what the program itself holds (no bookkeeping of the model)
programVars ==
  <<input, messages, apiKey, isThinking, streamingMessage, chatRef,
    localStorage, exchanges, transport>>
extractorVars == <<doc, extracted, displayed>>
serializerVars == <<turn, serialized>>
\* the variables of the checks of the pure functions
functionVars == <<extractorVars, serializerVars>>
vars == <<controllerVars, functionVars>>

(***************************************************************************)
(* Inputs.                                                                  *)
(***************************************************************************)
\* values typed into the textarea: a blank one and a prompt
Inputs == {<<" ">>, <<"h">>}
ApiKeys == {<<>>, <<"k">>}
Keys == {"Enter", "a"}
\* String(error) of a transport failure
ErrorTexts == {<<"E", "r", "r">>}
\* the response of the transport: a tagged block that arrives in two
\* fragments, an opening tag with a body and then the closing tag, over and
\* over; the stream may end or fail after any fragment
OpenChunk ==
  OpenLit \o <<" ">> \o IdentifierLit \o <<"a">> \o <<Quote, " ">>
    \o TypeLit \o <<"c">> \o <<Quote, " ">>
    \o TitleLit \o <<"T">> \o OpenEndLit \o <<"x">>
ResponseFragments == <<OpenChunk, CloseLit>>
\* chunk.text() of the k-th iteration of the for await loop
Fragment(k) == ResponseFragments[((k - 1) % Len(ResponseFragments)) + 1]

RECURSIVE Concat(_)
\* the texts of a sequence, one after the other
Concat(ss) == IF ss = <<>> THEN <<>> ELSE Head(ss) \o Concat(Tail(ss))

UserTurn(text) ==
  [role |-> "user", parts |-> <<[text |-> text]>>, artifacts |-> <<>>]
ModelTurn(text, artifacts) ==
  [role |-> "model", parts |-> <<[text |-> text]>>, artifacts |-> <<artifacts>>]
ErrorTurn(error) ==
  [role |-> "model", parts |-> <<[text |-> ErrorPrefix \o error]>>,
   artifacts |-> <<>>]

(***************************************************************************)
(* The effects.  PersistEffect runs after every render in which messages   *)
(* changed; LoadEffect runs once, on mount.                                *)
(***************************************************************************)
\* mutant: the effect without its length guard
PersistEffect_Unguarded(msgs, storage) ==
  [storage EXCEPT !.chatHistory = <<JSONStringify(msgs)>>]

PersistEffect(msgs, storage) ==
  IF Len(msgs) > 0
  THEN [storage EXCEPT !.chatHistory = <<JSONStringify(msgs)>>]
  ELSE storage

LoadedMessages(storage) ==
  IF storage.chatHistory # <<>> THEN JSONParse(storage.chatHistory[1]) ELSE <<>>

LoadedApiKey(storage) ==
  IF storage.apiKey # <<>> /\ storage.apiKey[1] # <<>>
  THEN storage.apiKey[1] ELSE <<>>

Init ==
  /\ input = <<>>
  /\ messages = <<>>
  /\ apiKey = <<>>
  /\ isThinking = FALSE
  /\ streamingMessage = <<>>
  /\ chatRef = <<>>
  /\ localStorage = [apiKey |-> <<>>, chatHistory |-> <<>>]
  /\ exchanges = {}
  /\ transport = [chats |-> 0, sent |-> <<>>, chunks |-> 0]
  /\ parsed = <<>>
  /\ submitted = 0
  /\ lastOp = "mount"
  /\ doc = <<>>
  /\ extracted = <<>>
  /\ displayed = <<>>
  /\ turn = <<>>
  /\ serialized = <<>>

\* a page load: the component is constructed anew, the suspended
\* continuations of the old page are gone, and the mount effects run
Mount ==
  /\ input' = <<>>
  /\ messages' = LoadedMessages(localStorage)
  /\ apiKey' = LoadedApiKey(localStorage)
  /\ isThinking' = FALSE
  /\ streamingMessage' = <<>>
  /\ chatRef' = <<>>
  /\ localStorage' = PersistEffect(messages', localStorage)
  /\ exchanges' = {}
  /\ lastOp' = "mount"
  /\ parsed' = <<>>
  /\ UNCHANGED <<transport, submitted>>
  /\ UNCHANGED functionVars

handleApiKeyChange(newApiKey) ==
  /\ apiKey' = newApiKey
  /\ localStorage' = [localStorage EXCEPT !.apiKey = <<newApiKey>>]
  /\ lastOp' = "other"
  /\ parsed' = <<>>
  /\ UNCHANGED <<input, messages, isThinking, streamingMessage, chatRef,
                 exchanges, transport, submitted>>
  /\ UNCHANGED functionVars

handleInputChange(value) ==
  /\ input' = value
  /\ lastOp' = "other"
  /\ parsed' = <<>>
  /\ UNCHANGED <<messages, apiKey, isThinking, streamingMessage, chatRef,
                 localStorage, exchanges, transport, submitted>>
  /\ UNCHANGED functionVars

(***************************************************************************)
(* handleSubmit up to its first await.                                     *)
(***************************************************************************)
NewChat(newMessages) ==
  [id |-> transport.chats + 1,
   history |-> <<[role |-> "user", parts |-> <<[text |-> instructions]>>]>>
                 \o convertMessagesToGeminiMessages(newMessages)]

\* mutant: the guard without trim
CanSubmit_NoTrim == input # <<>> /\ apiKey # <<>>

\* the guard of handleSubmit (line 252): it returns unless this holds
CanSubmit == Trim(input) # <<>> /\ apiKey # <<>>

\* the early return of line 252
SubmitRejected ==
  /\ lastOp' = "submitRejected"
  /\ parsed' = <<>>
  /\ UNCHANGED <<input, messages, apiKey, isThinking, streamingMessage,
                 chatRef, localStorage, exchanges, transport,
                 submitted>>

\* past the guard: the constructor, getGenerativeModel or startChat throws,
\* and catch and finally run in the same turn of the event loop
SubmitThrows(error) ==
  /\ submitted < MaxSubmits
  /\ LET newMessages == Append(messages, UserTurn(input))
     IN /\ messages' = Append(newMessages, ErrorTurn(error))
        /\ localStorage' = PersistEffect(messages', localStorage)
  /\ input' = <<>>
  /\ streamingMessage' = <<>>
  /\ isThinking' = FALSE
  /\ submitted' = submitted + 1
  /\ lastOp' = "submitThrew"
  /\ parsed' = <<>>
  /\ UNCHANGED <<apiKey, chatRef, exchanges, transport>>

\* mutant: the input buffer is not cleared
SubmitAccepted_KeepsInput ==
  /\ submitted < MaxSubmits
  /\ LET newMessages == Append(messages, UserTurn(input))
         chat == IF chatRef = <<>> THEN NewChat(newMessages) ELSE chatRef[1]
     IN /\ messages' = newMessages
        /\ localStorage' = PersistEffect(newMessages, localStorage)
        /\ chatRef' = <<chat>>
        /\ transport' =
             [chats |-> IF chatRef = <<>> THEN transport.chats + 1
                        ELSE transport.chats,
              sent |-> Append(transport.sent,
                              [chat |-> chat.id, message |-> input]),
              chunks |-> transport.chunks]
        /\ exchanges' = exchanges \cup
             {[xid |-> submitted + 1,
               newMessages |-> newMessages,
               fullResponse |-> <<>>,
               stream |-> <<>>]}
  /\ input' = input
  /\ isThinking' = TRUE
  /\ streamingMessage' = <<>>
  /\ submitted' = submitted + 1
  /\ lastOp' = "submitAccepted"
  /\ parsed' = <<>>
  /\ UNCHANGED <<apiKey>>

\* past the guard: lines 254-279, up to the await of sendMessageStream
SubmitAccepted ==
  /\ submitted < MaxSubmits
  /\ LET newMessages == Append(messages, UserTurn(input))
         chat == IF chatRef = <<>> THEN NewChat(newMessages) ELSE chatRef[1]
     IN /\ messages' = newMessages
        /\ localStorage' = PersistEffect(newMessages, localStorage)
        /\ chatRef' = <<chat>>
        /\ transport' =
             [chats |-> IF chatRef = <<>> THEN transport.chats + 1
                        ELSE transport.chats,
              sent |-> Append(transport.sent,
                              [chat |-> chat.id, message |-> input]),
              chunks |-> transport.chunks]
        /\ exchanges' = exchanges \cup
             {[xid |-> submitted + 1,
               newMessages |-> newMessages,
               fullResponse |-> <<>>,
               stream |-> <<>>]}
  /\ input' = <<>>
  /\ isThinking' = TRUE
  /\ streamingMessage' = <<>>
  /\ submitted' = submitted + 1
  /\ lastOp' = "submitAccepted"
  /\ parsed' = <<>>
  /\ UNCHANGED <<apiKey>>

\* handleSubmit up to its first await (or to its end, when it returns or
\* throws before it)
handleSubmit ==
  IF CanSubmit
  THEN \/ SubmitAccepted
       \/ \E error \in ErrorTexts : SubmitThrows(error)
  ELSE SubmitRejected

\* the form's submit event: its only source is the submit button, which is
\* disabled while isThinking
FormSubmit ==
  /\ ~isThinking
  /\ handleSubmit
  /\ UNCHANGED functionVars

handleKeyDown(key, shiftKey) ==
  /\ IF key = "Enter" /\ ~shiftKey
     THEN handleSubmit
     ELSE /\ lastOp' = "other"
          /\ parsed' = <<>>
          /\ UNCHANGED <<input, messages, apiKey, isThinking,
                         streamingMessage, chatRef, localStorage, exchanges,
                         transport, submitted>>
  /\ UNCHANGED functionVars

(***************************************************************************)
(* The continuations of handleSubmit, one per suspended invocation x.      *)
(* The promise of sendMessageStream resolving changes no state, so an      *)
(* invocation suspended at line 279 and one suspended in the for await     *)
(* loop before its first fragment are the same state.                      *)
(***************************************************************************)
\* one iteration of the for await loop
StreamChunk(x) ==
  /\ x \in exchanges
  /\ transport.chunks < MaxChunks
  /\ exchanges' = (exchanges \ {x}) \cup
       {[x EXCEPT !.fullResponse = x.fullResponse \o Fragment(Len(x.stream) + 1),
                  !.stream = Append(x.stream, Fragment(Len(x.stream) + 1))]}
  /\ streamingMessage' = streamingMessage \o Fragment(Len(x.stream) + 1)
  /\ transport' = [transport EXCEPT !.chunks = transport.chunks + 1]
  /\ lastOp' = "other"
  /\ parsed' = <<>>
  /\ UNCHANGED <<input, messages, apiKey, isThinking, chatRef, localStorage,
                 submitted>>
  /\ UNCHANGED functionVars

\* mutant: the turn is built from the live accumulator
StreamEnd_FromAccumulator(x) ==
  /\ x \in exchanges
  /\ LET artifacts == parseArtifacts(streamingMessage)
     IN messages' = Append(x.newMessages, ModelTurn(streamingMessage, artifacts))
  /\ parsed' = <<streamingMessage>>
  /\ localStorage' = PersistEffect(messages', localStorage)
  /\ streamingMessage' = <<>>
  /\ isThinking' = FALSE
  /\ exchanges' = exchanges \ {x}
  /\ lastOp' = "streamEnd"
  /\ UNCHANGED <<input, apiKey, chatRef, transport, submitted>>
  /\ UNCHANGED functionVars

\* mutant: the turn is appended to the current Log
StreamEnd_OntoCurrentLog(x) ==
  /\ x \in exchanges
  /\ LET artifacts == parseArtifacts(x.fullResponse)
     IN messages' = Append(messages, ModelTurn(x.fullResponse, artifacts))
  /\ parsed' = <<x.fullResponse>>
  /\ localStorage' = PersistEffect(messages', localStorage)
  /\ streamingMessage' = <<>>
  /\ isThinking' = FALSE
  /\ exchanges' = exchanges \ {x}
  /\ lastOp' = "streamEnd"
  /\ UNCHANGED <<input, apiKey, chatRef, transport, submitted>>
  /\ UNCHANGED functionVars

\* the stream ends: lines 288-293, then finally
StreamEnd(x) ==
  /\ x \in exchanges
  /\ LET artifacts == parseArtifacts(x.fullResponse)
     IN messages' = Append(x.newMessages, ModelTurn(x.fullResponse, artifacts))
  /\ parsed' = <<x.fullResponse>>
  /\ localStorage' = PersistEffect(messages', localStorage)
  /\ streamingMessage' = <<>>
  /\ isThinking' = FALSE
  /\ exchanges' = exchanges \ {x}
  /\ lastOp' = "streamEnd"
  /\ UNCHANGED <<input, apiKey, chatRef, transport, submitted>>
  /\ UNCHANGED functionVars

\* mutant: the catch block drops the chat session
TransportError_ResetsHandle(x, error) ==
  /\ x \in exchanges
  /\ messages' = Append(x.newMessages, ErrorTurn(error))
  /\ localStorage' = PersistEffect(messages', localStorage)
  /\ isThinking' = FALSE
  /\ chatRef' = <<>>
  /\ exchanges' = exchanges \ {x}
  /\ lastOp' = "transportError"
  /\ parsed' = <<>>
  /\ UNCHANGED <<input, apiKey, streamingMessage, transport, submitted>>
  /\ UNCHANGED functionVars

\* mutant: setIsThinking(false) on the success path only
TransportError_NoFinally(x, error) ==
  /\ x \in exchanges
  /\ messages' = Append(x.newMessages, ErrorTurn(error))
  /\ localStorage' = PersistEffect(messages', localStorage)
  /\ exchanges' = exchanges \ {x}
  /\ lastOp' = "transportError"
  /\ parsed' = <<>>
  /\ UNCHANGED <<input, apiKey, isThinking, streamingMessage, chatRef,
                 transport, submitted>>
  /\ UNCHANGED functionVars

\* sendMessageStream rejects or the stream throws: catch, then finally
TransportError(x, error) ==
  /\ x \in exchanges
  /\ messages' = Append(x.newMessages, ErrorTurn(error))
  /\ localStorage' = PersistEffect(messages', localStorage)
  /\ isThinking' = FALSE
  /\ exchanges' = exchanges \ {x}
  /\ lastOp' = "transportError"
  /\ parsed' = <<>>
  /\ UNCHANGED <<input, apiKey, streamingMessage, chatRef, transport,
                 submitted>>
  /\ UNCHANGED functionVars

\* mutant: clear writes an empty snapshot instead of removing the item
handleClearChat_EmptySnapshot ==
  /\ messages' = <<>>
  /\ localStorage' =
       [localStorage EXCEPT !.chatHistory = <<JSONStringify(<<>>)>>]
  /\ lastOp' = "handleClearChat"
  /\ parsed' = <<>>
  /\ UNCHANGED <<input, apiKey, isThinking, streamingMessage, chatRef,
                 exchanges, transport, submitted>>
  /\ UNCHANGED functionVars

handleClearChat ==
  /\ messages' = <<>>
  /\ localStorage' =
       PersistEffect(messages', [localStorage EXCEPT !.chatHistory = <<>>])
  /\ lastOp' = "handleClearChat"
  /\ parsed' = <<>>
  /\ UNCHANGED <<input, apiKey, isThinking, streamingMessage, chatRef,
                 exchanges, transport, submitted>>
  /\ UNCHANGED functionVars

SubmitOps == {"submitRejected", "submitAccepted", "submitThrew"}

Next ==
  \/ Mount
  \/ \E newApiKey \in ApiKeys : handleApiKeyChange(newApiKey)
  \/ \E value \in Inputs : handleInputChange(value)
  \/ FormSubmit
  \/ \E key \in Keys, shiftKey \in BOOLEAN : handleKeyDown(key, shiftKey)
  \/ \E x \in exchanges : StreamChunk(x)
  \/ \E x \in exchanges : StreamEnd(x)
  \/ \E x \in exchanges, error \in ErrorTexts : TransportError(x, error)
  \/ handleClearChat

Spec == Init /\ [][Next]_vars

TypeOK ==
  /\ isThinking \in BOOLEAN
  /\ submitted \in 0..MaxSubmits

\* the transport ends or fails every stream it has started
TransportFinishes ==
  \E x \in exchanges :
    (\E error \in ErrorTexts : TransportError(x, error)) \/ StreamEnd(x)

FairSpec == Spec /\ WF_vars(TransportFinishes)

(***************************************************************************)
(* Properties of the controller and the store.                             *)
(***************************************************************************)
IsPrefix(s, t) == Len(s) <= Len(t) /\ SubSeq(t, 1, Len(s)) = s
Last(s) == s[Len(s)]
Front(s) == SubSeq(s, 1, Len(s) - 1)

\* C1: a submission made while the controller is Streaming is a no-op: the
\* length of the Log and the live accumulator are the same after the call.
C1_SubmitWhileStreamingIsNoOp ==
  [][(isThinking /\ lastOp' \in SubmitOps)
       => (Len(messages') = Len(messages)
           /\ streamingMessage' = streamingMessage)]_vars

\* C2: at most one exchange is in flight in every reachable state.
C2_AtMostOneExchangeInFlight == Cardinality(exchanges) <= 1

\* C3: every step other than clear and load leaves the old Log as a prefix
\* of the new one.
C3_LogIsAppendOnly ==
  [][lastOp' \notin {"handleClearChat", "mount"}
       => IsPrefix(messages, messages')]_vars

\* C4: a transport error, after any number of fragments, ends its exchange
\* with the Log being the exchange's Log up to and including its user Turn
\* followed by exactly one model Turn, which has the failure text and no
\* artifacts; the controller's flag is back to idle.
C4_ErrorAppendsOneFailureTurn ==
  [][lastOp' = "transportError"
       => \E x \in exchanges :
            /\ exchanges' = exchanges \ {x}
            /\ Len(messages') = Len(x.newMessages) + 1
            /\ Front(messages') = x.newMessages
            /\ Last(x.newMessages).role = "user"
            /\ Last(messages').role = "model"
            /\ Last(messages').artifacts = <<>>
            /\ \E error \in ErrorTexts :
                 Last(messages').parts = <<[text |-> ErrorPrefix \o error]>>
            /\ isThinking' = FALSE]_vars

\* an error after a fragment has arrived: the fragment is still on display
C4_Witness ==
  /\ lastOp = "transportError"
  /\ streamingMessage # <<>>
  /\ Len(messages) >= 2
  /\ ~isThinking

\* C5: clear leaves an empty Log and no snapshot item at all, and a load
\* that follows it yields an empty Log.
C5_ClearEmptiesLogAndSnapshot ==
  [][/\ lastOp' = "handleClearChat"
          => (messages' = <<>> /\ localStorage'.chatHistory = <<>>)
     /\ (lastOp = "handleClearChat" /\ lastOp' = "mount")
          => messages' = <<>>]_vars

\* a clear after turns were appended in this page's lifetime
C5_Witness ==
  /\ lastOp = "handleClearChat"
  /\ chatRef # <<>>
  /\ submitted >= 1
  /\ messages = <<>>
  /\ localStorage.chatHistory = <<>>

\* C6: a submission with a blank input or without a credential changes
\* nothing: Log, snapshot, input, accumulator, flag, handle, transport.
C6_RejectedSubmissionIsNoOp ==
  [][(lastOp' \in SubmitOps /\ (Trim(input) = <<>> \/ apiKey = <<>>))
       => UNCHANGED programVars]_vars

\* a whitespace-only input rejected while a credential is set and the Log
\* holds turns
C6_Witness ==
  /\ lastOp = "submitRejected"
  /\ input = <<" ">>
  /\ apiKey # <<>>
  /\ messages # <<>>

\* C7: when a stream ends, parseArtifacts is called once, on the
\* concatenation of all the fragments of that exchange in arrival order;
\* the Log becomes the exchange's Log followed by one model Turn with that
\* text and the extracted artifacts; the accumulator is empty; no other
\* step calls parseArtifacts.
C7_FinalizeExtractsOnceFromFullText ==
  [][/\ lastOp' = "streamEnd"
          => \E x \in exchanges :
               LET full == Concat(x.stream)
               IN /\ exchanges' = exchanges \ {x}
                  /\ parsed' = <<full>>
                  /\ messages' =
                       Append(x.newMessages,
                              ModelTurn(full, parseArtifacts(full)))
                  /\ streamingMessage' = <<>>
     /\ lastOp' # "streamEnd" => parsed' = <<>>]_vars

\* a stream of two fragments that only together hold a block
C7_Witness ==
  /\ lastOp = "streamEnd"
  /\ parsed = <<OpenChunk \o CloseLit>>
  /\ Len(Last(messages).artifacts[1]) = 1
  /\ streamingMessage = <<>>

\* C8: the snapshot is absent exactly when the Log is empty and is
\* otherwise the serialization of the whole Log.
C8_SnapshotIsTheLog ==
  /\ (messages = <<>>) <=> (localStorage.chatHistory = <<>>)
  /\ messages # <<>> => localStorage.chatHistory = <<JSONStringify(messages)>>

\* a finalized exchange with an artifact, persisted
C8_Witness ==
  /\ Len(messages) >= 2
  /\ Last(messages).role = "model"
  /\ Last(messages).artifacts # <<>>
  /\ Last(messages).artifacts[1] # <<>>
  /\ localStorage.chatHistory # <<>>
  /\ Len(localStorage.chatHistory[1]) = Len(messages)

\* C9: every accepted submission eventually returns the controller to
\* idle; and the controller is not idle while an exchange is in flight.
\* The first half, under the assumption that the transport ends or fails
\* every stream it has started:
C9_EventuallyIdle == isThinking ~> ~isThinking

\* C9, the second half: in every reachable state, an idle controller has
\* no exchange in flight.
C9_IdleOnlyWhenNoExchange == ~isThinking => exchanges = {}

(***************************************************************************)
(* The extractor on its own.  A text is built segment by segment from      *)
(* surrounding text and tagged blocks written in the wire grammar          *)
(*   <antArtifact identifier="ID" type="TYPE" [language="LANG" ]title="T"> *)
(* and parseArtifacts is applied to it.  A block keeps its body as         *)
(* lead \o core \o trail, lead and trail being whitespace and core neither *)
(* starting nor ending with whitespace, so that the trimmed body is core.  *)
(***************************************************************************)
\* a complete opening tag that no closing tag of its own follows
StrayOpen ==
  OpenLit \o <<" ">> \o IdentifierLit \o <<"s">> \o <<Quote, " ">>
    \o TypeLit \o <<"d">> \o <<Quote, " ">>
    \o TitleLit \o <<"S">> \o OpenEndLit
\* an opening tag that breaks off inside an attribute value
PartialOpen == OpenLit \o <<" ">> \o IdentifierLit \o <<"p">>
\* a tag name without attributes
BareOpen == OpenLit \o <<">">>

TextPieces == {<<"h", "i", " ">>, PartialOpen, BareOpen, CloseLit, StrayOpen}

Blocks ==
  { [identifier |-> <<"a">>, type |-> <<"c">>, language |-> <<<<"p", "y">>>>,
     title |-> <<"T">>, gap |-> <<" ">>,
     lead |-> <<>>, core |-> <<"x", " ", "y">>, trail |-> <<>>],
    [identifier |-> <<"b">>, type |-> <<"m">>, language |-> <<>>,
     title |-> <<"U", " ", "V">>, gap |-> <<"\n", "\t">>,
     lead |-> <<>>, core |-> <<>>, trail |-> <<>>],
    [identifier |-> <<"c">>, type |-> <<"?">>, language |-> <<>>,
     title |-> <<">">>, gap |-> <<" ">>,
     lead |-> <<"\n", " ">>, core |-> BareOpen \o <<"<", "/", "a", ">">>,
     trail |-> <<" ", "\t">>],
    [identifier |-> <<"d">>, type |-> <<"c">>, language |-> <<<<"j">>>>,
     title |-> <<"W">>, gap |-> <<" ">>,
     lead |-> <<" ">>, core |-> PartialOpen \o <<"z">>, trail |-> <<"\n">>] }

TextSegment(piece) == [kind |-> "text", text |-> piece]
BlockSegment(block) == [kind |-> "block", block |-> block]

RenderBlock(b) ==
  OpenLit \o b.gap \o IdentifierLit \o b.identifier \o <<Quote>>
    \o b.gap \o TypeLit \o b.type \o <<Quote>> \o b.gap
    \o (IF b.language # <<>>
        THEN LanguageLit \o b.language[1] \o <<Quote>> \o b.gap ELSE <<>>)
    \o TitleLit \o b.title \o OpenEndLit
    \o b.lead \o b.core \o b.trail \o CloseLit

RenderSegment(seg) ==
  IF seg.kind = "text" THEN seg.text ELSE RenderBlock(seg.block)

Render(d) == Concat([k \in 1..Len(d) |-> RenderSegment(d[k])])

AddText(piece) ==
  /\ extracted = <<>>
  /\ Len(doc) < MaxSegments
  /\ doc' = Append(doc, TextSegment(piece))
  /\ UNCHANGED <<extracted, displayed>>
  /\ UNCHANGED <<controllerVars, serializerVars>>

AddBlock(block) ==
  /\ extracted = <<>>
  /\ Len(doc) < MaxSegments
  /\ doc' = Append(doc, BlockSegment(block))
  /\ UNCHANGED <<extracted, displayed>>
  /\ UNCHANGED <<controllerVars, serializerVars>>

Extract ==
  /\ extracted = <<>>
  /\ extracted' = <<parseArtifacts(Render(doc))>>
  /\ UNCHANGED <<doc, displayed>>
  /\ UNCHANGED <<controllerVars, serializerVars>>

\* the finalized turn is rendered
Display ==
  /\ extracted # <<>>
  /\ displayed = <<>>
  /\ displayed' = <<renderMessageContent(ModelTurn(Render(doc), extracted[1]))>>
  /\ UNCHANGED <<doc, extracted>>
  /\ UNCHANGED <<controllerVars, serializerVars>>

NextExtract ==
  \/ \E piece \in TextPieces : AddText(piece)
  \/ \E block \in Blocks : AddBlock(block)
  \/ Extract
  \/ Display

SpecExtract == Init /\ [][NextExtract]_vars

(***************************************************************************)
(* What the wire grammar says the text of a document holds: its blocks, in *)
(* order, each with its own attributes and its trimmed body.               *)
(***************************************************************************)
IsBlock(seg) == seg.kind = "block"

BlockArtifact(b) ==
  [identifier |-> b.identifier, type |-> b.type, language |-> b.language,
   title |-> b.title, content |-> b.core]

BlocksOf(d) ==
  LET bs == SelectSeq(d, IsBlock)
  IN [k \in 1..Len(bs) |-> BlockArtifact(bs[k].block)]

\* the surrounding text holds no tagged block of its own: no closing tag
\* follows a complete opening tag inside the surrounding text
SurroundingHasNoBlock(d) ==
  \A i, j \in 1..Len(d) :
    (i < j /\ d[i] = TextSegment(StrayOpen)) => d[j] # TextSegment(CloseLit)

\* no complete opening tag in the surrounding text precedes a block
NoStrayOpenBeforeBlock(d) ==
  \A i, j \in 1..Len(d) :
    (i < j /\ d[i] = TextSegment(StrayOpen)) => ~IsBlock(d[j])

\* C10: for a text made of N >= 0 well-formed blocks in arbitrary surrounding
\* text, parseArtifacts returns exactly the N blocks' artifacts, in order,
\* each with its own identifier, type, optional language and title and with
\* its trimmed body as content.
C10_ExtractReturnsTheBlocks ==
  (extracted # <<>> /\ SurroundingHasNoBlock(doc))
    => extracted[1] = BlocksOf(doc)

\* the same statement for the texts in which no unterminated opening tag
\* stands before a block
C10_HoldsWithoutStrayOpen ==
  (extracted # <<>> /\ SurroundingHasNoBlock(doc) /\ NoStrayOpenBeforeBlock(doc))
    => extracted[1] = BlocksOf(doc)

\* the opening tags of TextPieces that no closing tag of their own follows
UnterminatedOpens == {StrayOpen, PartialOpen, BareOpen}

\* an unterminated opening tag stands in the surrounding text before a block
UnterminatedOpenBeforeBlock(d) ==
  \E i, j \in 1..Len(d) :
    i < j /\ d[i].kind = "text" /\ d[i].text \in UnterminatedOpens /\ IsBlock(d[j])

\* C11: an unterminated opening tag yields no artifact and hides no later
\* block: for a text in which an unterminated opening tag is followed by
\* well-formed blocks, parseArtifacts returns exactly the blocks' artifacts,
\* each with its own attributes and body.
C11_UnterminatedOpenHidesNoBlock ==
  (extracted # <<>> /\ SurroundingHasNoBlock(doc)
     /\ UnterminatedOpenBeforeBlock(doc))
    => extracted[1] = BlocksOf(doc)

(***************************************************************************)
(* The serializer on its own.  A turn is chosen and                        *)
(* convertMessageToGeminiMessage is applied to it.                         *)
(***************************************************************************)
\* primary texts: empty, a word, a text that ends in a blank line
SerializerTexts == {<<>>, <<"h", "i">>, <<"a", "\n", "\n">>}

\* artifacts: with a language, without one, with a body of two lines
SerializerArtifacts ==
  { [identifier |-> <<"a">>, type |-> <<"c">>, language |-> <<<<"p", "y">>>>,
     title |-> <<"T">>, content |-> <<"x">>],
    [identifier |-> <<"b">>, type |-> <<"m">>, language |-> <<>>,
     title |-> <<"U", " ", "V">>, content |-> <<>>],
    [identifier |-> <<"c">>, type |-> <<"d">>, language |-> <<>>,
     title |-> <<"W">>, content |-> <<"y", "\n", "z">>] }

\* the artifacts property: undefined, or an array of 0..MaxArtifacts artifacts
SerializerArtifactLists ==
  {<<>>} \cup
    {<<as>> : as \in UNION {[1..n -> SerializerArtifacts] : n \in 0..MaxArtifacts}}

SerializerTurns ==
  {[role |-> r, parts |-> <<[text |-> t]>>, artifacts |-> as] :
     r \in {"user", "model"}, t \in SerializerTexts,
     as \in SerializerArtifactLists}

ChooseTurn(message) ==
  /\ turn = <<>>
  /\ turn' = <<message>>
  /\ UNCHANGED serialized
  /\ UNCHANGED <<controllerVars, extractorVars>>

Serialize ==
  /\ turn # <<>>
  /\ serialized = <<>>
  /\ serialized' = <<convertMessageToGeminiMessage(turn[1])>>
  /\ UNCHANGED turn
  /\ UNCHANGED <<controllerVars, extractorVars>>

NextSerialize ==
  \/ \E message \in SerializerTurns : ChooseTurn(message)
  \/ Serialize

SpecSerialize == Init /\ [][NextSerialize]_vars

HasNoArtifacts(message) ==
  message.artifacts = <<>> \/ message.artifacts[1] = <<>>

PrimaryText(message) == message.parts[1].text

\* C12: a turn with no artifacts (the property absent, or an empty array)
\* serializes to its role and exactly its primary text: no blank-line
\* suffix, no records.
C12_NoArtifactsSerializesToText ==
  (serialized # <<>> /\ HasNoArtifacts(turn[1]))
    => serialized[1] =
         [role |-> turn[1].role, parts |-> <<[text |-> PrimaryText(turn[1])]>>]

\* a model turn with an empty artifacts array whose text ends in a blank line
C12_Witness ==
  /\ serialized # <<>>
  /\ turn[1].role = "model"
  /\ turn[1].artifacts = <<<<>>>>
  /\ PrimaryText(turn[1]) = <<"a", "\n", "\n">>

BlankLine == <<"\n", "\n">>

FieldLine(name, value) == name \o <<":", " ">> \o value

\* the four lines of a record
RecordLines(a) ==
  <<FieldLine(<<"T", "i", "t", "l", "e">>, a.title),
    FieldLine(<<"C", "o", "n", "t", "e", "n", "t">>, a.content),
    FieldLine(<<"T", "y", "p", "e">>, a.type),
    FieldLine(<<"L", "a", "n", "g", "u", "a", "g", "e">>,
              IF a.language = <<>> THEN <<"N", "/", "A">> ELSE a.language[1])>>

\* C13: a turn with K >= 1 artifacts serializes to its primary text, a blank
\* line, then K records in artifact order joined by blank lines; a record is
\* the lines Title, Content, Type, Language, the language being N/A when
\* the artifact has none.
C13_ArtifactsSerializeToRecords ==
  (serialized # <<>> /\ ~HasNoArtifacts(turn[1]))
    => /\ serialized[1].role = turn[1].role
       /\ serialized[1].parts =
            <<[text |->
                 PrimaryText(turn[1]) \o BlankLine \o
                   Join([k \in 1..Len(turn[1].artifacts[1]) |->
                           Join(RecordLines(turn[1].artifacts[1][k]), <<"\n">>)],
                        BlankLine)]>>

\* two artifacts, the first without a language and the second with one
C13_Witness ==
  /\ serialized # <<>>
  /\ turn[1].artifacts # <<>>
  /\ Len(turn[1].artifacts[1]) = 2
  /\ turn[1].artifacts[1][1].language = <<>>
  /\ turn[1].artifacts[1][2].language # <<>>

(***************************************************************************)
(* Properties of the dialogue handle and of what reaches the transport.    *)
(***************************************************************************)
IsErrorTurn(message) ==
  /\ message.role = "model"
  /\ message.artifacts = <<>>
  /\ IsPrefix(ErrorPrefix, message.parts[1].text)

\* C14: within a page's lifetime the handle is created lazily, by an
\* accepted submission that finds none, and is reused afterwards: a step
\* creates a chat only when there is no handle; every accepted submission
\* sends through the handle it finds, or through the one it creates; and no
\* step other than a clear or a page load, a transport failure included,
\* resets or replaces an existing handle.
C14_HandleIsLazyAndReused ==
  [][lastOp' # "mount"
       => /\ (transport'.chats # transport.chats
                => /\ chatRef = <<>>
                   /\ lastOp' = "submitAccepted"
                   /\ transport'.chats = transport.chats + 1
                   /\ chatRef' # <<>>
                   /\ chatRef'[1].id = transport'.chats)
          /\ (lastOp' = "submitAccepted"
                => /\ chatRef' # <<>>
                   /\ (chatRef # <<>> => transport'.chats = transport.chats)
                   /\ transport'.sent =
                        Append(transport.sent,
                               [chat |-> chatRef'[1].id, message |-> input]))
          /\ (lastOp' # "submitAccepted" => transport'.sent = transport.sent)
          /\ ((chatRef # <<>> /\ lastOp' # "handleClearChat")
                => chatRef' = chatRef)]_vars

\* a second exchange, after a failed one, sent through the first one's handle
C14_Witness ==
  /\ lastOp = "submitAccepted"
  /\ Len(messages) = 3
  /\ IsErrorTurn(messages[2])
  /\ transport.chats = 1
  /\ Len(transport.sent) = 2
  /\ transport.sent[1].chat = transport.sent[2].chat
  /\ chatRef # <<>>
  /\ chatRef[1].id = transport.sent[2].chat

\* C15: a clear leaves no handle, and the exchange that follows it creates
\* a fresh one.
C15_ClearResetsHandle ==
  [][/\ lastOp' = "handleClearChat" => chatRef' = <<>>
     /\ (lastOp = "handleClearChat" /\ lastOp' = "submitAccepted")
          => /\ transport'.chats = transport.chats + 1
             /\ chatRef' # <<>>
             /\ chatRef'[1].id = transport'.chats]_vars

\* C16: a page load replaces the Log by the parsed snapshot when there is
\* one and leaves it empty otherwise; and the Log it yields is the Log at
\* the moment of the restart: same turns, same order, same artifacts.
C16_LoadRestoresTheLog ==
  [][lastOp' = "mount"
       => /\ messages' = (IF localStorage.chatHistory # <<>>
                          THEN JSONParse(localStorage.chatHistory[1])
                          ELSE <<>>)
          /\ messages' = messages]_vars

\* a restart after a finalized exchange with an artifact and a failed one
C16_Witness ==
  /\ lastOp = "mount"
  /\ Len(messages) = 4
  /\ messages[2].artifacts # <<>>
  /\ Len(messages[2].artifacts[1]) = 1
  /\ IsErrorTurn(messages[4])
  /\ chatRef = <<>>

\* C17: the history handed to the transport when a chat is started for a
\* prompt is the system instruction followed by the serialization, in Log
\* order, of the turns before that prompt only; the prompt is the message
\* sent and is no part of the history.
C17_HistoryIsThePriorTurns ==
  [][(lastOp' = "submitAccepted" /\ chatRef = <<>>)
       => /\ chatRef' # <<>>
          /\ chatRef'[1].history =
               <<[role |-> "user", parts |-> <<[text |-> instructions]>>]>>
                 \o convertMessagesToGeminiMessages(messages)
          /\ Last(transport'.sent).message = input]_vars

\* C18: after each fragment arrival the live accumulator equals the
\* concatenation, in arrival order, of exactly the fragments the exchange
\* that received it has received so far.
C18_AccumulatorIsTheFragmentsSoFar ==
  [][\A x \in exchanges : \A y \in exchanges' :
       (y.xid = x.xid /\ Len(y.stream) = Len(x.stream) + 1)
         => streamingMessage' = Concat(y.stream)]_vars

RECURSIVE WithoutExtractedFrom(_, _)
\* the text from lastIndex on without the match m of artifactRegex that
\* starts at i
WithoutExtractedMatch(text, lastIndex, i, m) ==
  SubSeq(text, lastIndex, i - 1) \o WithoutExtractedFrom(text, m[1].end)

WithoutExtractedAt(text, lastIndex, starts) ==
  IF starts = {} THEN SubSeq(text, lastIndex, Len(text))
  ELSE WithoutExtractedMatch(text, lastIndex, Min(starts),
                             MatchAt(text, Min(starts)))

\* the text without the ranges the loop of parseArtifacts matches
WithoutExtractedFrom(text, lastIndex) ==
  WithoutExtractedAt(text, lastIndex,
                     {j \in lastIndex..Len(text) : MatchAt(text, j) # <<>>})

\* C19: extraction and display stripping detect the same blocks: the
\* displayed text is the text without exactly the blocks for which
\* parseArtifacts emits an artifact, and a block that yields no artifact is
\* left in place.
C19_DisplayRemovesTheExtractedBlocks ==
  displayed # <<>> => displayed[1] = WithoutExtractedFrom(Render(doc), 1)

\* the same statement for the texts whose every opening tag name belongs to
\* a block that parseArtifacts extracts
C19_HoldsWhenEveryTagIsExtracted ==
  (displayed # <<>>
     /\ IndexOfFrom(WithoutExtractedFrom(Render(doc), 1), 1, OpenLit) = 0)
    => displayed[1] = WithoutExtractedFrom(Render(doc), 1)

\* the exchanges the step finalizes or fails
Ended ==
  {x \in exchanges : /\ lastOp' \in {"streamEnd", "transportError"}
                     /\ \A y \in exchanges' : y.xid # x.xid}

\* C20: an accepted submission from Idle appends exactly one user turn whose
\* text is the submitted input and which has no artifacts, and clears the
\* input buffer, before any fragment is received; that user turn is still in
\* the Log when the exchange finalizes or fails.
C20_UserTurnAppendedAndKept ==
  [][/\ (~isThinking /\ lastOp' = "submitAccepted")
          => /\ messages' = Append(messages, UserTurn(input))
             /\ input' = <<>>
             /\ transport'.chunks = transport.chunks
             /\ \E x \in exchanges' :
                  /\ x.xid = submitted'
                  /\ x.newMessages = messages'
                  /\ x.stream = <<>>
     /\ (~isThinking /\ lastOp' = "submitThrew")
          => /\ Front(messages') = Append(messages, UserTurn(input))
             /\ IsErrorTurn(Last(messages'))
             /\ input' = <<>>
     /\ \A x \in Ended :
          /\ Last(x.newMessages) = UserTurn(Last(x.newMessages).parts[1].text)
          /\ Front(messages') = x.newMessages]_vars

\* two exchanges one after the other, each submitted from Idle: the first
\* finalized, the second failed, both user turns in the Log
C20_Witness ==
  /\ exchanges = {} /\ ~isThinking /\ submitted = 2 /\ input = <<>>
  /\ Len(messages) = 4
  /\ messages[1] = UserTurn(<<"h">>) /\ messages[3] = UserTurn(<<"h">>)
  /\ ~IsErrorTurn(messages[2]) /\ messages[2].role = "model"
  /\ IsErrorTurn(messages[4])

\* the turns of the stored snapshot (none when the item is absent)
SnapshotTurns(storage) ==
  IF storage.chatHistory = <<>> THEN <<>> ELSE JSONParse(storage.chatHistory[1])

HasUserTurn(log) == \E k \in 1..Len(log) : log[k].role = "user"

\* C21: after handleClearChat no turn that was in the Log before it appears
\* again in the Log or in the stored snapshot.  An exchange that ends while
\* the Log is empty was submitted before a clear (its own user turn was in
\* the Log), so the step that finalizes or fails it adds a model turn and
\* brings back no user turn.
C21_ClearedTurnsNeverReturn ==
  [][(Ended # {} /\ messages = <<>>)
       => /\ ~HasUserTurn(messages')
          /\ ~HasUserTurn(SnapshotTurns(localStorage'))]_vars

\* C22: starting from an empty Log, every model turn of the Log is
\* immediately preceded by a user turn: a model turn is never first and two
\* model turns are never adjacent.
C22_ModelTurnFollowsUserTurn ==
  \A k \in 1..Len(messages) :
    messages[k].role = "model" => (k > 1 /\ messages[k - 1].role = "user")

\* a second prompt was submitted while the first exchange was streaming, and
\* the second exchange has ended: two user turns, then its model turn
C22_Witness ==
  /\ lastOp \in {"streamEnd", "transportError"}
  /\ Len(messages) = 3
  /\ messages[1].role = "user" /\ messages[2].role = "user"
  /\ messages[3].role = "model"

\* C23: whenever no exchange is in flight and the controller is idle, the
\* live accumulator is empty: it is cleared at the end of every exchange, on
\* the error path as well as on the success path.
C23_IdleAccumulatorIsEmpty ==
  (exchanges = {} /\ ~isThinking) => streamingMessage = <<>>

=============================================================================
